---- MODULE Spec2Model ----
(***************************************************************************)
(* The catalog back end of src/src/index.ts: an in-memory cache of four    *)
(* JSON documents (categories, products, collections, settings), loaded    *)
(* once at boot, served from memory by the Express handlers, and written   *)
(* back by fire-and-forget fs.writeFile calls after every mutation.        *)
(*                                                                         *)
(* JavaScript values are strings here.  A JS string is itself; the other   *)
(* scalars carry a leading "#": "#true", "#false", "#null", "#0",          *)
(* "#undefined".  An object is a function from its own keys to values, so  *)
(* a key that is absent is simply not in the DOMAIN.  An array is a        *)
(* sequence.                                                               *)
(***************************************************************************)
EXTENDS Integers, Sequences, FiniteSets

VARIABLES
    pc,             \* position of startServer: "boot" or "listening"
    dataCache,      \* the global DataStore
    isCacheLoaded,  \* the flag set by loadDataIntoCache
    disk,           \* the four files: disk[f] is a document
    inflight,       \* saveCacheAsync calls whose writes have not settled
    saveFailed,     \* whether the .catch of some save has run
    now,            \* the last value Date.now() returned
    saves,          \* number of saveCacheAsync calls so far
    adminPassword,  \* process.env.ADMIN_PASSWORD
    req,            \* the request handled in this turn of the event loop
    res             \* the response it was given

vars ==
    <<pc, dataCache, isCacheLoaded, disk, inflight, saveFailed, now, saves,
      adminPassword, req, res>>

\* ------------------------------------------------------------------ bounds

\* Mutating requests (saveCacheAsync calls) in one run.
MaxSaves == 2

\* Largest reading of the millisecond clock.
MaxClock == 2

\* ------------------------------------------------------------------ values

JSTrue == "#true"
JSFalse == "#false"
JSNull == "#null"
JSUndefined == "#undefined"

\* ToBoolean of a JS scalar.
Truthy(v) == v \notin {"", JSFalse, JSNull, JSUndefined, "#0"}

\* The unary ! operator.
Not(v) == IF Truthy(v) THEN JSFalse ELSE JSTrue

\* obj.key, which is undefined when obj has no such key.
Prop(obj, key) == IF key \in DOMAIN obj THEN obj[key] ELSE JSUndefined

\* The empty object {}.
EmptyObject == [k \in {} |-> ""]

\* A replacement in place of a merge: b alone, a's other keys lost.
SpreadReplace(a, b) == b

\* A merge in which the keys a has keep a's values.
SpreadFirstWins(a, b) ==
    [k \in DOMAIN a \cup DOMAIN b |-> IF k \in DOMAIN a THEN a[k] ELSE b[k]]

\* { ...a, ...b }: b's own keys over a's.
Spread(a, b) ==
    [k \in DOMAIN a \cup DOMAIN b |-> IF k \in DOMAIN b THEN b[k] ELSE a[k]]

\* Number.prototype.toString in base 10.
Digit == <<"0", "1", "2", "3", "4", "5", "6", "7", "8", "9">>

RECURSIVE ToString(_)
ToString(n) ==
    IF n < 10 THEN Digit[n + 1]
    ELSE ToString(n \div 10) \o Digit[(n % 10) + 1]

\* Array.prototype.findIndex on the id: the first index whose id is strictly
\* equal to the parameter, or 0 (JavaScript's -1) when there is none.
FindIndex(list, id) ==
    IF \E i \in 1..Len(list) : Prop(list[i], "id") = id
    THEN CHOOSE i \in 1..Len(list) :
            /\ Prop(list[i], "id") = id
            /\ \A j \in 1..(i - 1) : Prop(list[j], "id") # id
    ELSE 0

\* Array.prototype.splice(index, 1).
Splice(list, index) ==
    [i \in 1..(Len(list) - 1) |-> IF i < index THEN list[i] ELSE list[i + 1]]

\* ------------------------------------------------------------------ files

Files == {"categories", "products", "collections", "settings"}

\* The keys whose values are arrays.
ListKeys == {"productIds"}

\* JSON.stringify of one object: a key whose value is undefined is left out.
StringifyObject(obj) ==
    [k \in {j \in DOMAIN obj : j \in ListKeys \/ obj[j] # JSUndefined} |-> obj[k]]

\* JSON.stringify(value, null, 2) of one part of the cache: the text of a
\* document.  A document that fs.readFile or JSON.parse rejects has no text.
Stringify(f, value) ==
    [readable |-> TRUE,
     json |-> IF f = "settings" THEN StringifyObject(value)
              ELSE [i \in 1..Len(value) |-> StringifyObject(value[i])]]

Unreadable == [readable |-> FALSE, json |-> <<>>]

\* JSON.parse of a readable document.
Parse(doc) == doc.json

\* The initial value of dataCache.
EmptyCache ==
    [products |-> <<>>, categories |-> <<>>, collections |-> <<>>,
     settings |-> [phoneNumber |-> ""]]

\* A load that keeps the documents it could read and the default for the rest.
LoadResultPartial(d, cache) ==
    [f \in Files |-> IF d[f].readable THEN Parse(d[f]) ELSE cache[f]]

\* loadDataIntoCache's result for the files `d`: all four documents parsed, or
\* the cache as it was when any of them cannot be read or parsed.
LoadResult(d, cache) ==
    IF \A f \in Files : d[f].readable
    THEN [categories |-> Parse(d["categories"]),
          products |-> Parse(d["products"]),
          collections |-> Parse(d["collections"]),
          settings |-> Parse(d["settings"])]
    ELSE cache

\* The texts saveCacheAsync hands to its four fs.writeFile calls: each part of
\* the cache stringified when saveCacheAsync is called.
SaveTexts(cache) == [f \in Files |-> Stringify(f, cache[f])]

\* saveCacheAsync: the Promise.all over the four writes is started and not
\* awaited.  seq tells the calls apart.
saveCacheAsync(cache) == inflight \cup {[seq |-> saves + 1, data |-> SaveTexts(cache)]}

\* ------------------------------------------------------------------ boot

SeedCategories == <<[id |-> "cat-1", name |-> "Tea"]>>

SeedProducts ==
    <<[id |-> "p-1", name |-> "Oolong", categoryId |-> "cat-1", isLiked |-> JSTrue],
      [id |-> "p-2", name |-> "Mate", categoryId |-> "cat-2", isLiked |-> JSFalse]>>

SeedCollections ==
    <<[id |-> "col-1", name |-> "Gift",
       productIds |-> <<[productId |-> "p-1", recommendedVolumeIndex |-> 0],
                        [productId |-> "p-1", recommendedVolumeIndex |-> 1],
                        [productId |-> "p-9", recommendedVolumeIndex |-> 0]>>]>>

SeedSettings == [phoneNumber |-> "+7700"]

SeedStore ==
    [categories |-> SeedCategories, products |-> SeedProducts,
     collections |-> SeedCollections, settings |-> SeedSettings]

\* The data directory at process start: a store written by an earlier run,
\* or that store with one document missing or corrupt.
GoodDisk == [f \in Files |-> Stringify(f, SeedStore[f])]

\* The process at start: the data directory and the environment.
Boots ==
    {[disk |-> GoodDisk, adminPassword |-> "secret"],
     [disk |-> [GoodDisk EXCEPT !["products"] = Unreadable], adminPassword |-> JSUndefined],
     [disk |-> [GoodDisk EXCEPT !["settings"] = Unreadable], adminPassword |-> ""]}

NoRequest == [op |-> "none"]
NoResponse == [status |-> 0]

Init ==
    /\ pc = "boot"
    /\ dataCache = EmptyCache
    /\ isCacheLoaded = FALSE
    /\ \E b \in Boots : disk = b.disk /\ adminPassword = b.adminPassword
    /\ inflight = {}
    /\ saveFailed = FALSE
    /\ now = 1
    /\ saves = 0
    /\ req = NoRequest
    /\ res = NoResponse

\* startServer: await loadDataIntoCache(), then app.listen.
loadDataIntoCache ==
    /\ pc = "boot"
    /\ dataCache' = LoadResult(disk, dataCache)
    /\ isCacheLoaded' = TRUE
    /\ pc' = "listening"
    /\ UNCHANGED <<disk, inflight, saveFailed, now, saves, adminPassword, req, res>>

\* ------------------------------------------------------------------ event loop

\* A handler runs when the server listens and the previous turn has ended.
Idle == pc = "listening" /\ req = NoRequest

\* An answer that leaves the cache as it was and calls saveCacheAsync all the
\* same.
AnswerAndSave(request, response) ==
    /\ inflight = {}
    /\ saves < MaxSaves
    /\ inflight' = saveCacheAsync(dataCache)
    /\ saves' = saves + 1
    /\ req' = request
    /\ res' = response
    /\ UNCHANGED <<pc, dataCache, isCacheLoaded, disk, saveFailed, now, adminPassword>>

\* The handler answered and left the cache as it was.  It reads neither the
\* files nor the pending saves, so these answers are explored in the states
\* where no save is in flight.
Answer(request, response) ==
    /\ inflight = {}
    /\ req' = request
    /\ res' = response
    /\ UNCHANGED <<pc, dataCache, isCacheLoaded, disk, inflight, saveFailed, now,
                   saves, adminPassword>>

\* The handler changed the cache to `cache`, called saveCacheAsync and answered.
Mutate(cache, request, response) ==
    /\ saves < MaxSaves
    /\ dataCache' = cache
    /\ inflight' = saveCacheAsync(cache)
    /\ saves' = saves + 1
    /\ req' = request
    /\ res' = response
    /\ UNCHANGED <<pc, isCacheLoaded, disk, saveFailed, adminPassword>>

\* The handler has returned and its response is on its way.
EndOfTurn ==
    /\ req # NoRequest
    /\ req' = NoRequest
    /\ res' = NoResponse
    /\ UNCHANGED <<pc, dataCache, isCacheLoaded, disk, inflight, saveFailed, now,
                   saves, adminPassword>>

\* The files after the writes of save `s` have settled, those to `rejected`
\* with an error: a file whose write resolved holds the text the call was
\* given, a file whose write rejected is as it was.
Settled(d, s, rejected) ==
    [f \in Files |-> IF f \in rejected THEN d[f] ELSE s.data[f]]

\* The four writes of one saveCacheAsync call have resolved.  The writes of
\* one call are taken together; the calls settle in any order.
saveResolved ==
    /\ req = NoRequest
    /\ \E s \in inflight :
        /\ disk' = Settled(disk, s, {})
        /\ inflight' = inflight \ {s}
    /\ UNCHANGED <<pc, dataCache, isCacheLoaded, saveFailed, now, saves,
                   adminPassword, req, res>>

\* A rejected write after which the cache is loaded again from the files.
saveRejectedReload ==
    /\ req = NoRequest
    /\ \E s \in inflight, f \in Files :
        /\ disk' = Settled(disk, s, {f})
        /\ inflight' = inflight \ {s}
    /\ dataCache' = LoadResult(disk', dataCache)
    /\ saveFailed' = TRUE
    /\ UNCHANGED <<pc, isCacheLoaded, now, saves, adminPassword, req, res>>

\* One write of one saveCacheAsync call has rejected and the others have
\* resolved: the .catch logs the error and nothing else happens.
saveRejected ==
    /\ req = NoRequest
    /\ \E s \in inflight, f \in Files :
        /\ disk' = Settled(disk, s, {f})
        /\ inflight' = inflight \ {s}
    /\ saveFailed' = TRUE
    /\ UNCHANGED <<pc, dataCache, isCacheLoaded, now, saves, adminPassword, req, res>>

\* ------------------------------------------------------------------ inputs

\* The :id of a request: the id of a stored entity, or one that none has.
IdsOf(list) == {Prop(list[i], "id") : i \in 1..Len(list)} \cup {"nope"}

CategoryIds == IdsOf(dataCache.categories)
ProductIds == IdsOf(dataCache.products)
CollectionIds == IdsOf(dataCache.collections)

CategoryBodies == {[name |-> "Herbs"], [id |-> "cat-1", name |-> "Dup"]}

ProductBodies ==
    {[name |-> "Pu-erh", categoryId |-> "cat-1", isLiked |-> JSTrue],
     [isLiked |-> "yes"]}

CollectionBodies ==
    {[name |-> "Sale"],
     [productIds |-> <<[productId |-> "p-2", recommendedVolumeIndex |-> 2]>>]}

PhoneBodies == {EmptyObject, [phoneNumber |-> ""], [phoneNumber |-> "+7701"]}

AuthBodies ==
    {EmptyObject, [password |-> ""], [password |-> "secret"], [password |-> "wrong"]}

\* req.query of GET /api/products: the values are strings.
ProductQueries ==
    {EmptyObject, [categoryId |-> ""], [categoryId |-> "cat-1"],
     [isLiked |-> "true"],
     [categoryId |-> "cat-1", isLiked |-> "true"]}

\* ------------------------------------------------------------------ categories

NotFound(message) == [status |-> 404, body |-> [error |-> message]]

\* GET /api/categories
GetCategories ==
    /\ Idle
    /\ Answer([op |-> "GET /api/categories"],
              [status |-> 200, body |-> dataCache.categories])

\* The response of GET /api/categories/:id.
GetCategoryByIdResponse(cache, id) ==
    LET index == FindIndex(cache.categories, id) IN
    IF index # 0 THEN [status |-> 200, body |-> cache.categories[index]]
    ELSE NotFound("category not found")

GetCategoryById ==
    /\ Idle
    /\ \E id \in CategoryIds :
        Answer([op |-> "GET /api/categories/:id", id |-> id],
               GetCategoryByIdResponse(dataCache, id))

\* POST /api/categories
PostCategories ==
    /\ Idle
    /\ \E body \in CategoryBodies, t \in now..MaxClock :
        LET newCategory == Spread([id |-> ToString(t)], body) IN
        /\ now' = t
        /\ Mutate([dataCache EXCEPT !.categories = Append(@, newCategory)],
                  [op |-> "POST /api/categories", body |-> body],
                  [status |-> 201, body |-> newCategory])

\* PUT /api/categories/:id
PutCategory ==
    /\ Idle
    /\ \E id \in CategoryIds, body \in CategoryBodies :
        LET index == FindIndex(dataCache.categories, id)
            request == [op |-> "PUT /api/categories/:id", id |-> id, body |-> body]
            merged == Spread(dataCache.categories[index], body)
        IN  IF index # 0
            THEN /\ Mutate([dataCache EXCEPT !.categories[index] = merged],
                           request, [status |-> 200, body |-> merged])
                 /\ UNCHANGED now
            ELSE Answer(request, NotFound("category not found"))

\* A delete of a category that also deletes the products of the category.
DeleteCategoryCascade ==
    /\ Idle
    /\ \E id \in CategoryIds :
        LET index == FindIndex(dataCache.categories, id)
            request == [op |-> "DELETE /api/categories/:id", id |-> id]
        IN  IF index # 0
            THEN /\ Mutate([dataCache EXCEPT
                               !.categories = Splice(@, index),
                               !.products =
                                   SelectSeq(@, LAMBDA p : Prop(p, "categoryId") # id)],
                           request,
                           [status |-> 200, body |-> [message |-> "category deleted"]])
                 /\ UNCHANGED now
            ELSE Answer(request, NotFound("category not found"))

\* DELETE /api/categories/:id
DeleteCategory ==
    /\ Idle
    /\ \E id \in CategoryIds :
        LET index == FindIndex(dataCache.categories, id)
            request == [op |-> "DELETE /api/categories/:id", id |-> id]
        IN  IF index # 0
            THEN /\ Mutate([dataCache EXCEPT !.categories = Splice(@, index)],
                           request,
                           [status |-> 200, body |-> [message |-> "category deleted"]])
                 /\ UNCHANGED now
            ELSE Answer(request, NotFound("category not found"))

\* ------------------------------------------------------------------ products

\* GET /api/products with a liked filter that keeps every truthy isLiked.
GetProductsResponseTruthy(cache, query) ==
    LET categoryId == Prop(query, "categoryId")
        byCategory ==
            IF Truthy(categoryId)
            THEN SelectSeq(cache.products,
                           LAMBDA p : Prop(p, "categoryId") = categoryId)
            ELSE cache.products
        byLiked ==
            IF Prop(query, "isLiked") = "true"
            THEN SelectSeq(byCategory, LAMBDA p : Truthy(Prop(p, "isLiked")))
            ELSE byCategory
    IN  [status |-> 200, body |-> byLiked]

\* The response of GET /api/products: the category filter when the query
\* value is truthy, then the liked filter when the query value is "true".
GetProductsResponse(cache, query) ==
    LET categoryId == Prop(query, "categoryId")
        byCategory ==
            IF Truthy(categoryId)
            THEN SelectSeq(cache.products,
                           LAMBDA p : Prop(p, "categoryId") = categoryId)
            ELSE cache.products
        byLiked ==
            IF Prop(query, "isLiked") = "true"
            THEN SelectSeq(byCategory, LAMBDA p : Prop(p, "isLiked") = JSTrue)
            ELSE byCategory
    IN  [status |-> 200, body |-> byLiked]

GetProducts ==
    /\ Idle
    /\ \E query \in ProductQueries :
        Answer([op |-> "GET /api/products", query |-> query],
               GetProductsResponse(dataCache, query))

\* The response of GET /api/products/:id.
GetProductByIdResponse(cache, id) ==
    LET index == FindIndex(cache.products, id) IN
    IF index # 0 THEN [status |-> 200, body |-> cache.products[index]]
    ELSE NotFound("product not found")

GetProductById ==
    /\ Idle
    /\ \E id \in ProductIds :
        Answer([op |-> "GET /api/products/:id", id |-> id],
               GetProductByIdResponse(dataCache, id))

\* A like that is set and never cleared.
ToggleLikeSet(product) == Spread(product, [isLiked |-> JSTrue])

\* product.isLiked = !product.isLiked
ToggleLike(product) == Spread(product, [isLiked |-> Not(Prop(product, "isLiked"))])

\* The products after the handler has negated isLiked of the product that
\* find returned for the id.
LikeToggled(products, id) ==
    [products EXCEPT ![FindIndex(products, id)] = ToggleLike(@)]

\* PATCH /api/products/:id/like
PatchProductLike ==
    /\ Idle
    /\ \E id \in ProductIds :
        LET index == FindIndex(dataCache.products, id)
            request == [op |-> "PATCH /api/products/:id/like", id |-> id]
            product == ToggleLike(dataCache.products[index])
        IN  IF index # 0
            THEN /\ Mutate([dataCache EXCEPT !.products = LikeToggled(@, id)],
                           request, [status |-> 200, body |-> product])
                 /\ UNCHANGED now
            ELSE Answer(request, NotFound("product not found"))

\* A new product in which the body's isLiked is kept.
NewProductBodyWins(t, body) == Spread([id |-> ToString(t), isLiked |-> JSFalse], body)

\* { id: Date.now().toString(), ...req.body, isLiked: false }
NewProduct(t, body) == Spread(Spread([id |-> ToString(t)], body), [isLiked |-> JSFalse])

\* POST /api/products
PostProducts ==
    /\ Idle
    /\ \E body \in ProductBodies, t \in now..MaxClock :
        LET newProduct == NewProduct(t, body) IN
        /\ now' = t
        /\ Mutate([dataCache EXCEPT !.products = Append(@, newProduct)],
                  [op |-> "POST /api/products", body |-> body],
                  [status |-> 201, body |-> newProduct])

\* PUT /api/products/:id
PutProduct ==
    /\ Idle
    /\ \E id \in ProductIds, body \in ProductBodies :
        LET index == FindIndex(dataCache.products, id)
            request == [op |-> "PUT /api/products/:id", id |-> id, body |-> body]
            merged == Spread(dataCache.products[index], body)
        IN  IF index # 0
            THEN /\ Mutate([dataCache EXCEPT !.products[index] = merged],
                           request, [status |-> 200, body |-> merged])
                 /\ UNCHANGED now
            ELSE Answer(request, NotFound("product not found"))

\* DELETE /api/products/:id
DeleteProduct ==
    /\ Idle
    /\ \E id \in ProductIds :
        LET index == FindIndex(dataCache.products, id)
            request == [op |-> "DELETE /api/products/:id", id |-> id]
        IN  IF index # 0
            THEN /\ Mutate([dataCache EXCEPT !.products = Splice(@, index)],
                           request,
                           [status |-> 200, body |-> [message |-> "product deleted"]])
                 /\ UNCHANGED now
            ELSE Answer(request, NotFound("product not found"))

\* ------------------------------------------------------------------ admin auth

\* POST /api/admin/auth with 400 only for a body that has no password key.
AdminAuthResponseKeyOnly(body, secret) ==
    LET password == Prop(body, "password") IN
    IF password = JSUndefined
    THEN [status |-> 400,
          body |-> [success |-> JSFalse, message |-> "password not given"]]
    ELSE IF password = secret
    THEN [status |-> 200,
          body |-> [success |-> JSTrue, message |-> "authorized"]]
    ELSE [status |-> 401,
          body |-> [success |-> JSFalse, message |-> "wrong password"]]

\* The response of POST /api/admin/auth for the body and ADMIN_PASSWORD.
AdminAuthResponse(body, secret) ==
    LET password == Prop(body, "password") IN
    IF ~Truthy(password)
    THEN [status |-> 400,
          body |-> [success |-> JSFalse, message |-> "password not given"]]
    ELSE IF password = secret
    THEN [status |-> 200,
          body |-> [success |-> JSTrue, message |-> "authorized"]]
    ELSE [status |-> 401,
          body |-> [success |-> JSFalse, message |-> "wrong password"]]

AdminAuth ==
    /\ Idle
    /\ \E body \in AuthBodies :
        Answer([op |-> "POST /api/admin/auth", body |-> body],
               AdminAuthResponse(body, adminPassword))

\* ------------------------------------------------------------------ settings

\* GET /api/settings/phone; res.json leaves an undefined phoneNumber out.
GetSettingsPhone ==
    /\ Idle
    /\ Answer([op |-> "GET /api/settings/phone"],
              [status |-> 200,
               body |-> StringifyObject(
                            [phoneNumber |-> Prop(dataCache.settings, "phoneNumber")])])

\* A settings update that takes every falsy phoneNumber for a missing one.
PutSettingsPhoneTruthy ==
    /\ Idle
    /\ \E body \in PhoneBodies :
        LET phoneNumber == Prop(body, "phoneNumber")
            request == [op |-> "PUT /api/settings/phone", body |-> body]
        IN  IF ~Truthy(phoneNumber)
            THEN Answer(request,
                        [status |-> 400, body |-> [error |-> "phone number not given"]])
            ELSE /\ Mutate([dataCache EXCEPT
                               !.settings = Spread(@, [phoneNumber |-> phoneNumber])],
                           request,
                           [status |-> 200,
                            body |-> [message |-> "phone number updated",
                                      phoneNumber |-> phoneNumber]])
                 /\ UNCHANGED now

\* PUT /api/settings/phone
PutSettingsPhone ==
    /\ Idle
    /\ \E body \in PhoneBodies :
        LET phoneNumber == Prop(body, "phoneNumber")
            request == [op |-> "PUT /api/settings/phone", body |-> body]
        IN  IF phoneNumber = JSUndefined
            THEN Answer(request,
                        [status |-> 400, body |-> [error |-> "phone number not given"]])
            ELSE /\ Mutate([dataCache EXCEPT
                               !.settings = Spread(@, [phoneNumber |-> phoneNumber])],
                           request,
                           [status |-> 200,
                            body |-> [message |-> "phone number updated",
                                      phoneNumber |-> phoneNumber]])
                 /\ UNCHANGED now

\* ------------------------------------------------------------------ collections

\* GET /api/collections
GetCollections ==
    /\ Idle
    /\ Answer([op |-> "GET /api/collections"],
              [status |-> 200, body |-> dataCache.collections])

\* An expansion that resolves no reference.
ExpandRefBare(cache, ref) == ref

\* { ...ref, product }, as res.json writes it: product is the first product
\* whose id is ref.productId, and the key is left out when find returned
\* undefined.
ExpandRef(cache, ref) ==
    LET index == FindIndex(cache.products, Prop(ref, "productId")) IN
    IF index # 0
    THEN [k \in DOMAIN ref \cup {"product"} |->
            IF k = "product" THEN cache.products[index] ELSE ref[k]]
    ELSE [k \in DOMAIN ref \ {"product"} |-> ref[k]]

\* The response of GET /api/collections/:id.  collection.productIds.map throws
\* a TypeError when the collection has no productIds, and the catch answers 500.
GetCollectionByIdResponse(cache, id) ==
    LET index == FindIndex(cache.collections, id)
        collection == cache.collections[index]
    IN  IF index = 0 THEN NotFound("collection not found")
        ELSE IF "productIds" \notin DOMAIN collection
        THEN [status |-> 500, body |-> [error |-> "collection load error"]]
        ELSE [status |-> 200,
              body |-> [k \in DOMAIN collection \cup {"products"} |->
                          IF k = "products"
                          THEN [i \in 1..Len(collection.productIds) |->
                                  ExpandRef(cache, collection.productIds[i])]
                          ELSE collection[k]]]

GetCollectionById ==
    /\ Idle
    /\ \E id \in CollectionIds :
        Answer([op |-> "GET /api/collections/:id", id |-> id],
               GetCollectionByIdResponse(dataCache, id))

\* POST /api/collections
PostCollections ==
    /\ Idle
    /\ \E body \in CollectionBodies, t \in now..MaxClock :
        LET newCollection == Spread([id |-> ToString(t)], body) IN
        /\ now' = t
        /\ Mutate([dataCache EXCEPT !.collections = Append(@, newCollection)],
                  [op |-> "POST /api/collections", body |-> body],
                  [status |-> 201, body |-> newCollection])

\* PUT /api/collections/:id
PutCollection ==
    /\ Idle
    /\ \E id \in CollectionIds, body \in CollectionBodies :
        LET index == FindIndex(dataCache.collections, id)
            request == [op |-> "PUT /api/collections/:id", id |-> id, body |-> body]
            merged == Spread(dataCache.collections[index], body)
        IN  IF index # 0
            THEN /\ Mutate([dataCache EXCEPT !.collections[index] = merged],
                           request, [status |-> 200, body |-> merged])
                 /\ UNCHANGED now
            ELSE Answer(request, NotFound("collection not found"))

\* DELETE /api/collections/:id
DeleteCollection ==
    /\ Idle
    /\ \E id \in CollectionIds :
        LET index == FindIndex(dataCache.collections, id)
            request == [op |-> "DELETE /api/collections/:id", id |-> id]
        IN  IF index # 0
            THEN /\ Mutate([dataCache EXCEPT !.collections = Splice(@, index)],
                           request,
                           [status |-> 200, body |-> [message |-> "collection deleted"]])
                 /\ UNCHANGED now
            ELSE Answer(request, NotFound("collection not found"))

\* ------------------------------------------------------------------ the program

Next ==
    \/ loadDataIntoCache
    \/ EndOfTurn
    \/ saveResolved
    \/ saveRejected
    \/ GetCategories
    \/ GetCategoryById
    \/ PostCategories
    \/ PutCategory
    \/ DeleteCategory
    \/ GetProducts
    \/ GetProductById
    \/ PatchProductLike
    \/ PostProducts
    \/ PutProduct
    \/ DeleteProduct
    \/ AdminAuth
    \/ GetSettingsPhone
    \/ PutSettingsPhone
    \/ GetCollections
    \/ GetCollectionById
    \/ PostCollections
    \/ PutCollection
    \/ DeleteCollection

Spec == Init /\ [][Next]_vars

\* ------------------------------------------------------------------ claims

Collections == {"categories", "products", "collections"}

PostOp(c) == "POST /api/" \o c
PutOp(c) == "PUT /api/" \o c \o "/:id"
DeleteOp(c) == "DELETE /api/" \o c \o "/:id"

\* The response GET /api/<c>/:id gives for the cache.
GetByIdResponse(cache, c, id) ==
    CASE c = "categories" -> GetCategoryByIdResponse(cache, id)
      [] c = "products" -> GetProductByIdResponse(cache, id)
      [] c = "collections" -> GetCollectionByIdResponse(cache, id)

\* C1: after a create on categories, products or collections, the identifier
\* of the returned entity differs from the identifier of every entity that
\* was in the collection before it (the new entity is the last one).
C1_CreatedIdIsUnique ==
    \A c \in Collections :
        (req.op = PostOp(c) /\ res.status = 201) =>
            \A i \in 1..(Len(dataCache[c]) - 1) :
                Prop(dataCache[c][i], "id") # Prop(res.body, "id")

\* C2: when the server listens, no save is in flight and no write has failed,
\* loading the four files gives the cache the process holds.
C2_ReloadGivesCache ==
    (pc = "listening" /\ inflight = {} /\ ~saveFailed) =>
        LoadResult(disk, EmptyCache) = dataCache

\* C3: when DELETE /:id has answered 200, GET /:id on the same identifier,
\* handled next, answers 404.
C3_DeleteThenGetIsNotFound ==
    \A c \in Collections :
        (req.op = DeleteOp(c) /\ res.status = 200) =>
            GetByIdResponse(dataCache, c, req.id).status = 404

\* The entity PUT /:id of this step replaced, and what replaced it.
Target(c) == FindIndex(dataCache[c], req'.id)

\* C4: a PUT /:id that answers 200 leaves the list as long as it was and every
\* other entity as it was; the entity at the position of the first match has
\* the keys of the old entity and of the body, the body's value for each key
\* of the body (the whole value, also an array) and the old value for every
\* other key, and it is the entity returned.
C4_UpdateIsShallowMerge ==
    [][\A c \in Collections :
        (req = NoRequest /\ req'.op = PutOp(c) /\ res'.status = 200) =>
            LET old == dataCache[c][Target(c)]
                new == dataCache'[c][Target(c)]
                body == req'.body
            IN  /\ Len(dataCache'[c]) = Len(dataCache[c])
                /\ \A i \in 1..Len(dataCache[c]) :
                      i # Target(c) => dataCache'[c][i] = dataCache[c][i]
                /\ DOMAIN new = DOMAIN old \cup DOMAIN body
                /\ \A k \in DOMAIN body : new[k] = body[k]
                /\ \A k \in DOMAIN old \ DOMAIN body : new[k] = old[k]
                /\ res'.body = new]_vars

\* C4's case: a PUT on the seeded collection whose body holds only productIds
\* replaced the three references by the body's one and kept the name.
C4_Witness ==
    /\ req.op = PutOp("collections")
    /\ res.status = 200
    /\ DOMAIN req.body = {"productIds"}
    /\ res.body.id = "col-1"
    /\ res.body.name = "Gift"
    /\ res.body.productIds = req.body.productIds
    /\ Len(res.body.productIds) < Len(SeedCollections[1].productIds)

\* C5: what is durable was held in memory.  The documents that are readable
\* when load ends are the ones the cache holds; a save carries the texts of
\* the cache at its call; and a file changes only to the text a save in
\* flight carries for it.
C5_DurableWasHeldInMemory ==
    [][/\ (pc = "boot" /\ pc' = "listening") =>
            \A f \in Files :
                disk'[f].readable => disk'[f] = Stringify(f, dataCache'[f])
       /\ \A s \in inflight' \ inflight : s.data = SaveTexts(dataCache')
       /\ \A f \in Files :
            disk'[f] # disk[f] => \E s \in inflight : disk'[f] = s.data[f]]_vars

\* C6: when load ends and some document could not be read, the cache is the
\* empty default, isCacheLoaded is set and the server listens.
C6_LoadFallsBackToEmpty ==
    [][(pc = "boot" /\ pc' # "boot" /\ \E f \in Files : ~disk[f].readable) =>
            /\ dataCache' = EmptyCache
            /\ isCacheLoaded' = TRUE
            /\ pc' = "listening"]_vars

\* C6's case: one document was unreadable, the categories document holds a
\* category, and the server has answered GET /api/categories with no category.
C6_Witness ==
    /\ \E f \in Files : ~disk[f].readable
    /\ disk["categories"].readable
    /\ Len(disk["categories"].json) > 0
    /\ isCacheLoaded
    /\ dataCache = EmptyCache
    /\ req.op = "GET /api/categories"
    /\ res = [status |-> 200, body |-> <<>>]

\* C7: a handler that calls saveCacheAsync answers 200 or 201 in the same turn,
\* with its save in flight and carrying the cache it left; and the settling
\* of a save, resolved or rejected, changes neither the cache nor any
\* response, starts no other save, and leaves each file with the text that
\* save carried or as it was.
C7_PersistenceDoesNotGate ==
    [][/\ saves' # saves =>
            /\ saves' = saves + 1
            /\ res'.status \in {200, 201}
            /\ inflight' =
                  inflight \cup {[seq |-> saves', data |-> SaveTexts(dataCache')]}
       /\ inflight' # inflight /\ saves' = saves =>
            /\ inflight' \subseteq inflight
            /\ UNCHANGED <<dataCache, req, res, pc>>
            /\ \A s \in inflight \ inflight' : \A f \in Files :
                  disk'[f] \in {disk[f], s.data[f]}]_vars

\* C7's case: a write has failed, no save is in flight, and what the files
\* hold is not what the cache holds.
C7_Witness ==
    /\ saves > 0
    /\ saveFailed
    /\ inflight = {}
    /\ LoadResult(disk, EmptyCache) # dataCache

\* SelectSeq by positions: the entities of the list that satisfy both tests,
\* the liked test taken first.
LikedThenCategory(products, wantLiked, wantCategory, categoryId) ==
    LET liked == SelectSeq(products,
                           LAMBDA p : wantLiked => Prop(p, "isLiked") = JSTrue)
    IN  SelectSeq(liked, LAMBDA p : wantCategory => Prop(p, "categoryId") = categoryId)

\* C8 as claimed: no password field answers 400, a password equal to the
\* configured secret answers 200 and any other password answers 401.
C8_AuthAsClaimed ==
    req.op = "POST /api/admin/auth" =>
        /\ res.status = IF "password" \notin DOMAIN req.body THEN 400
                        ELSE IF req.body.password = adminPassword THEN 200
                        ELSE 401
        /\ res.body.success = IF res.status = 200 THEN JSTrue ELSE JSFalse

\* C8 as amended: no password field or an empty password answers 400; a
\* non-empty password equal to the configured secret answers 200; any other
\* non-empty password answers 401; success is true exactly with 200.
C8_AuthAmended ==
    req.op = "POST /api/admin/auth" =>
        /\ res.status = IF "password" \notin DOMAIN req.body \/ req.body.password = ""
                        THEN 400
                        ELSE IF req.body.password = adminPassword THEN 200
                        ELSE 401
        /\ res.body.success = IF res.status = 200 THEN JSTrue ELSE JSFalse

\* C8's case: the empty password was sent while the configured secret is the
\* empty string, and the answer was 400.
C8_Witness ==
    /\ req.op = "POST /api/admin/auth"
    /\ req.body = [password |-> ""]
    /\ adminPassword = ""
    /\ res.status = 400

\* C9 as claimed: GET /api/products answers with the stored products, in the
\* stored order, that are liked when isLiked=true is given and whose
\* categoryId is the given one when categoryId is given, whichever filter is
\* taken first, and leaves the cache as it was.
C9_FiltersAsClaimed ==
    [][(req = NoRequest /\ req'.op = "GET /api/products") =>
            /\ res'.status = 200
            /\ res'.body = LikedThenCategory(dataCache.products,
                                             Prop(req'.query, "isLiked") = "true",
                                             "categoryId" \in DOMAIN req'.query,
                                             Prop(req'.query, "categoryId"))
            /\ dataCache' = dataCache]_vars

\* C9 as amended: the category filter is applied when categoryId is given and
\* is not the empty string; an empty categoryId filters nothing.
C9_FiltersAmended ==
    [][(req = NoRequest /\ req'.op = "GET /api/products") =>
            /\ res'.status = 200
            /\ res'.body = LikedThenCategory(dataCache.products,
                                             Prop(req'.query, "isLiked") = "true",
                                             Prop(req'.query, "categoryId") \notin
                                                 {JSUndefined, ""},
                                             Prop(req'.query, "categoryId"))
            /\ dataCache' = dataCache]_vars

\* C9's case: both filters were given, and some but not all stored products
\* were returned, among them none with a liked flag other than true.
C9_Witness ==
    /\ req.op = "GET /api/products"
    /\ req.query = [categoryId |-> "cat-1", isLiked |-> "true"]
    /\ Len(res.body) > 0
    /\ Len(res.body) < Len(dataCache.products)
    /\ \E i \in 1..Len(dataCache.products) :
          /\ Prop(dataCache.products[i], "categoryId") = "cat-1"
          /\ Prop(dataCache.products[i], "isLiked") \notin {JSTrue, JSFalse}

\* The product references a stored collection holds.
StoredRefs(collection) ==
    IF "productIds" \in DOMAIN collection THEN collection.productIds ELSE <<>>

\* C10: GET /api/collections/:id on a stored collection answers 200 with a
\* products list that has one entry for each stored product reference, in the
\* stored order, each with the productId and the recommendedVolumeIndex of
\* its reference.
C10_ExpansionKeepsReferences ==
    (req.op = "GET /api/collections/:id"
        /\ FindIndex(dataCache.collections, req.id) # 0) =>
        LET refs == StoredRefs(dataCache.collections[
                                   FindIndex(dataCache.collections, req.id)])
        IN  /\ res.status = 200
            /\ Len(res.body.products) = Len(refs)
            /\ \A i \in 1..Len(refs) :
                  /\ res.body.products[i].productId = refs[i].productId
                  /\ res.body.products[i].recommendedVolumeIndex =
                        refs[i].recommendedVolumeIndex

\* The list without its element at position i.
Without(list, i) == SubSeq(list, 1, i - 1) \o SubSeq(list, i + 1, Len(list))

\* A handler has answered the request `op` in this step.
Handles(op) == req = NoRequest /\ req'.op = op

\* C11: POST /api/products answers with a product whose isLiked is false,
\* whatever isLiked the body has, and stores that product as the last one;
\* and while the server listens, a step that is not a POST, a PUT or a like
\* PATCH on products leaves the products as they were or removes one of them,
\* so a stored isLiked changes only by an update or a toggle.
C11_CreatedProductIsNotLiked ==
    [][/\ Handles("POST /api/products") =>
            /\ res'.status = 201
            /\ res'.body.isLiked = JSFalse
            /\ dataCache'.products = Append(dataCache.products, res'.body)
       /\ (pc = "listening"
            /\ ~Handles("POST /api/products")
            /\ ~Handles("PUT /api/products/:id")
            /\ ~Handles("PATCH /api/products/:id/like")) =>
            \/ dataCache'.products = dataCache.products
            \/ \E i \in 1..Len(dataCache.products) :
                  dataCache'.products = Without(dataCache.products, i)]_vars

\* C11's case: a product created from the body that asks for isLiked true is
\* stored with isLiked false, and another product has been deleted since.
C11_Witness ==
    /\ req.op = "DELETE /api/products/:id"
    /\ res.status = 200
    /\ \E i \in 1..Len(dataCache.products) :
          /\ dataCache.products[i].id \in {ToString(t) : t \in 1..MaxClock}
          /\ Prop(dataCache.products[i], "name") = "Pu-erh"
          /\ dataCache.products[i].isLiked = JSFalse

\* What a like PATCH that answered 200 did to the product it found: the liked
\* flag is a boolean, false for a flag that was true and true for one that
\* was false, every other field and every other product is as it was, and
\* the product is the one returned.
ToggleNegates ==
    LET index == FindIndex(dataCache.products, req'.id)
        old == dataCache.products[index]
        new == dataCache'.products[index]
    IN  /\ Len(dataCache'.products) = Len(dataCache.products)
        /\ \A i \in 1..Len(dataCache.products) :
              i # index => dataCache'.products[i] = dataCache.products[i]
        /\ DOMAIN new = DOMAIN old \cup {"isLiked"}
        /\ \A k \in DOMAIN old \ {"isLiked"} : new[k] = old[k]
        /\ new.isLiked \in {JSTrue, JSFalse}
        /\ Prop(old, "isLiked") = JSTrue => new.isLiked = JSFalse
        /\ Prop(old, "isLiked") = JSFalse => new.isLiked = JSTrue
        /\ res'.body = new

\* C12 as claimed: a like PATCH that answers 200 negates the liked flag of the
\* product it found and changes nothing else, and a second like PATCH on the
\* same identifier gives back the products as they were before the first.
C12_ToggleAsClaimed ==
    [][(Handles("PATCH /api/products/:id/like") /\ res'.status = 200) =>
            /\ ToggleNegates
            /\ LikeToggled(dataCache'.products, req'.id) = dataCache.products]_vars

\* C12 as amended: the second like PATCH gives back the products as they were
\* when the liked flag of the product was true or false before the first; a
\* flag that is not a boolean has become a boolean and is not restored.
C12_ToggleAmended ==
    [][(Handles("PATCH /api/products/:id/like") /\ res'.status = 200) =>
            /\ ToggleNegates
            /\ LET old == dataCache.products[FindIndex(dataCache.products, req'.id)]
               IN  IF Prop(old, "isLiked") \in {JSTrue, JSFalse}
                   THEN LikeToggled(dataCache'.products, req'.id) = dataCache.products
                   ELSE LikeToggled(dataCache'.products, req'.id) # dataCache.products]_vars

\* C12's case: the like PATCH on the seeded product p-1, stored after another
\* product, has cleared its liked flag and returned it with its other fields.
C12_Witness ==
    /\ req.op = "PATCH /api/products/:id/like"
    /\ req.id = "p-1"
    /\ res.status = 200
    /\ res.body = [SeedProducts[1] EXCEPT !.isLiked = JSFalse]
    /\ Len(dataCache.products) = 2
    /\ dataCache.products[1] = res.body
    /\ dataCache.products[2] = SeedProducts[2]

\* The fields of a created entity that the server sets itself.
ServerFields(c) == IF c = "products" THEN {"id", "isLiked"} ELSE {"id"}

\* C13: a POST on categories, products or collections answers 201 with an
\* entity whose id is the clock reading of the request written as a decimal
\* string and whose other fields are the body's (isLiked of a product apart),
\* and the list is the list as it was followed by that entity.
C13_CreateAppendsStampedEntity ==
    [][\A c \in Collections :
        Handles(PostOp(c)) =>
            /\ res'.status = 201
            /\ res'.body.id = ToString(now')
            /\ DOMAIN res'.body = DOMAIN req'.body \cup ServerFields(c)
            /\ \A k \in DOMAIN req'.body \ ServerFields(c) :
                  res'.body[k] = req'.body[k]
            /\ dataCache'[c] = Append(dataCache[c], res'.body)]_vars

\* The requests that address one entity of a collection to change it, each
\* with the collection it addresses.
ChangeOps ==
    {<<PutOp(c), c>> : c \in Collections}
        \cup {<<DeleteOp(c), c>> : c \in Collections}
        \cup {<<"PATCH /api/products/:id/like", "products">>}

\* The requests whose handlers call saveCacheAsync.
MutatingOps ==
    {o[1] : o \in ChangeOps} \cup {PostOp(c) : c \in Collections}
        \cup {"PUT /api/settings/phone"}

\* No entity of the list has the id.
NoMatch(list, id) == \A i \in 1..Len(list) : Prop(list[i], "id") # id

\* C14: an update, a delete or a like toggle whose id no entity of the
\* collection has answers 404 and leaves the cache, the saves in flight and
\* the count of saves as they were; and a handler step schedules a save (one)
\* exactly when its request is a mutating one and its answer is 200 or 201.
C14_NotFoundHasNoEffect ==
    [][/\ \A o \in ChangeOps :
            (Handles(o[1]) /\ NoMatch(dataCache[o[2]], req'.id)) =>
                /\ res'.status = 404
                /\ UNCHANGED <<dataCache, inflight, saves, disk>>
       /\ \A o \in ChangeOps :
            (Handles(o[1]) /\ res'.status = 404) => NoMatch(dataCache[o[2]], req'.id)
       /\ (req = NoRequest /\ req' # NoRequest) =>
            /\ saves' \in {saves, saves + 1}
            /\ saves' = saves + 1 <=>
                  (req'.op \in MutatingOps /\ res'.status \in {200, 201})
            /\ saves' = saves => inflight' = inflight
            /\ saves' = saves + 1 => Cardinality(inflight' \ inflight) = 1]_vars

\* C14's case: after an earlier mutation was saved, a delete of a product id
\* that no product has was answered 404, with no save in flight.
C14_Witness ==
    /\ req.op = "DELETE /api/products/:id"
    /\ NoMatch(dataCache.products, req.id)
    /\ res.status = 404
    /\ saves > 0
    /\ inflight = {}
    /\ LoadResult(disk, EmptyCache) = dataCache

\* The requests whose handlers write the part f of the cache.
OpsOn(f) ==
    IF f = "settings" THEN {"PUT /api/settings/phone"}
    ELSE {PostOp(f), PutOp(f), DeleteOp(f)}
            \cup (IF f = "products" THEN {"PATCH /api/products/:id/like"} ELSE {})

\* C15: once the cache is loaded, a part of the cache changes only in the step
\* of a handler for a mutating request on that part: a request on one part
\* leaves the other three as they were.  So a delete of a category leaves the
\* products, and a delete of a product leaves the collections, as they were.
C15_NoCascade ==
    [][\A f \in Files :
        (pc = "listening" /\ dataCache'[f] # dataCache[f]) =>
            /\ req = NoRequest
            /\ req'.op \in OpsOn(f)
            /\ \A g \in Files \ {f} : dataCache'[g] = dataCache[g]]_vars

\* C15's case: the category cat-1 was deleted and no category has that id,
\* while the seeded products are all stored and one of them names cat-1.
C15_Witness ==
    /\ req.op = DeleteOp("categories")
    /\ req.id = "cat-1"
    /\ res.status = 200
    /\ NoMatch(dataCache.categories, "cat-1")
    /\ dataCache.products = SeedProducts
    /\ \E i \in 1..Len(dataCache.products) :
          dataCache.products[i].categoryId = "cat-1"

\* C16: in a 200 answer of GET /api/collections/:id each expanded entry has a
\* product exactly when some stored product has the entry's productId as id,
\* and that product is then a stored product with that id; the request leaves
\* the cache as it was.
C16_ExpansionResolvesProducts ==
    [][(Handles("GET /api/collections/:id") /\ res'.status = 200) =>
            /\ \A i \in 1..Len(res'.body.products) :
                  LET entry == res'.body.products[i] IN
                  /\ "product" \in DOMAIN entry <=>
                        ~NoMatch(dataCache.products, entry.productId)
                  /\ "product" \in DOMAIN entry =>
                        \E j \in 1..Len(dataCache.products) :
                            /\ dataCache.products[j] = entry.product
                            /\ Prop(entry.product, "id") = entry.productId
            /\ dataCache' = dataCache]_vars

\* C16's case: the expansion of the seeded collection has the stored product
\* p-1 for its first two references, which repeat, and no product for the
\* third, whose productId no stored product has.
C16_Witness ==
    /\ req.op = "GET /api/collections/:id"
    /\ req.id = "col-1"
    /\ res.status = 200
    /\ Len(res.body.products) = 3
    /\ \A i \in 1..2 :
          /\ res.body.products[i].productId = "p-1"
          /\ res.body.products[i].product \in
                {dataCache.products[j] : j \in 1..Len(dataCache.products)}
    /\ res.body.products[3].productId = "p-9"
    /\ "product" \notin DOMAIN res.body.products[3]
    /\ NoMatch(dataCache.products, "p-9")

\* The bodies of the requests on a collection.
BodiesOf(c) ==
    CASE c = "categories" -> CategoryBodies
      [] c = "products" -> ProductBodies
      [] c = "collections" -> CollectionBodies

\* C17: an update is one step, taken from a state in which no handler is at
\* work, and the cache changes in no other kind of step once it is loaded.
\* When the entity it finds holds the fields of a body b1, as after an update
\* with b1, the entity it leaves is the merge of b1 and then of its own body
\* over what was before: each field has the value of the later body that has
\* it, b1's value if only b1 has it, and otherwise the value it had.
C17_LastWriterWins ==
    [][/\ (pc = "listening" /\ dataCache' # dataCache) =>
            (req = NoRequest /\ req' # NoRequest)
       /\ \A c \in Collections :
            (Handles(PutOp(c)) /\ res'.status = 200) =>
                LET old == dataCache[c][Target(c)]
                    new == dataCache'[c][Target(c)]
                    b2 == req'.body
                IN  \A b1 \in BodiesOf(c) :
                        (\A k \in DOMAIN b1 : k \in DOMAIN old /\ old[k] = b1[k]) =>
                            /\ DOMAIN new = DOMAIN old \cup DOMAIN b2
                            /\ \A k \in DOMAIN new :
                                  new[k] = IF k \in DOMAIN b2 THEN b2[k]
                                           ELSE IF k \in DOMAIN b1 THEN b1[k]
                                           ELSE old[k]]_vars

\* C17's case: product p-1 was updated with the body that names it Pu-erh and
\* then with the body that holds only isLiked; it has the name of the first
\* and the isLiked of the second.
C17_Witness ==
    /\ req.op = PutOp("products")
    /\ req.id = "p-1"
    /\ req.body = [isLiked |-> "yes"]
    /\ res.status = 200
    /\ saves = 2
    /\ res.body = [id |-> "p-1", name |-> "Pu-erh", categoryId |-> "cat-1",
                   isLiked |-> "yes"]
    /\ dataCache.products[1] = res.body

\* C18: PUT /api/settings/phone with no phoneNumber in the body answers 400
\* and leaves the cache and the saves as they were; with a phoneNumber, the
\* empty string too, it answers 200 with that value, stores it and schedules
\* one save.  GET /api/settings/phone answers with the stored value, and once
\* the cache is loaded the stored value changes only in a PUT that answers 200.
C18_SettingsPhone ==
    [][/\ Handles("PUT /api/settings/phone") =>
            IF "phoneNumber" \notin DOMAIN req'.body
            THEN /\ res'.status = 400
                 /\ UNCHANGED <<dataCache, inflight, saves, disk>>
            ELSE /\ res'.status = 200
                 /\ res'.body.phoneNumber = req'.body.phoneNumber
                 /\ dataCache'.settings = [phoneNumber |-> req'.body.phoneNumber]
                 /\ saves' = saves + 1
                 /\ Cardinality(inflight' \ inflight) = 1
       /\ Handles("GET /api/settings/phone") =>
            /\ res' = [status |-> 200,
                       body |-> [phoneNumber |-> dataCache.settings.phoneNumber]]
            /\ dataCache' = dataCache
       /\ (pc = "listening" /\ dataCache'.settings # dataCache.settings) =>
            (Handles("PUT /api/settings/phone") /\ res'.status = 200)]_vars

\* C18's case: the cache was loaded with the seeded phone number, the empty
\* string was stored in its place, and a GET has answered the empty string.
C18_Witness ==
    /\ dataCache.categories = SeedCategories
    /\ req.op = "GET /api/settings/phone"
    /\ res.status = 200
    /\ res.body.phoneNumber = ""
    /\ dataCache.settings.phoneNumber = ""
    /\ saves > 0

\* GET /api/<c>/:id on the cache finds the entity: for categories and products
\* it answers 200 with it, for collections it is the collection that the
\* handler finds and expands.
GetFinds(cache, c, id, entity) ==
    IF c = "collections"
    THEN /\ FindIndex(cache[c], id) # 0
         /\ cache[c][FindIndex(cache[c], id)] = entity
    ELSE GetByIdResponse(cache, c, id) = [status |-> 200, body |-> entity]

\* C19: after a PUT /:id that answered 200 the collection has as many entities
\* as before, the returned entity has the id of the request, and a GET on
\* that id finds the returned entity.
C19_UpdateKeepsIdentifier ==
    [][\A c \in Collections :
        (Handles(PutOp(c)) /\ res'.status = 200) =>
            /\ Len(dataCache'[c]) = Len(dataCache[c])
            /\ Prop(res'.body, "id") = req'.id
            /\ GetFinds(dataCache', c, req'.id, res'.body)]_vars

====
